---------------------------- MODULE Spec2Model ----------------------------
(***************************************************************************)
(* A model of two MultiQC log parsers:                                     *)
(*                                                                         *)
(*   - multiqc/modules/picard/CrosscheckFingerprints.py (parse_reports,    *)
(*     _take_till, _parse_cli, _create_general_stats_data): the pairwise   *)
(*     record parser and its Pass/Fail summary;                            *)
(*   - multiqc/modules/cutadapt/cutadapt.py (MultiqcModule): the           *)
(*     line-scanning parser, its nested histogram scan, the derived        *)
(*     metrics pass and the post-scan transform.                           *)
(*                                                                         *)
(* Python dicts whose iteration order the code relies on are sequences of  *)
(* [k, v] entries in insertion order; the other dicts are functions.       *)
(* Text is modelled by the tokens the code's regular expressions and       *)
(* string tests tell apart; numbers written with dots or commas are        *)
(* sequences of their digit groups, converted as int()/float()/            *)
(* version.parse() convert them.                                           *)
(***************************************************************************)
EXTENDS Integers, Sequences, FiniteSets, TLC

VARIABLES
    \* ---- picard/CrosscheckFingerprints.py: parse_reports ----
    data_by_sample,      \* ordered dict: row ordinal -> row
    p_phase,             \* "idle" (between files), "open" (inside the row loop),
                         \* "raised" (an exception left parse_reports), "done"
    p_row_i,             \* enumerate() index of the next row of the open file
    p_cli,               \* [tumor_awareness, lod_threshold] of the open file
    p_nfiles,            \* files taken from find_log_files so far
    general_stats_data,  \* result of _create_general_stats_data
    p_return,            \* return value of parse_reports (-1: not returned)
    survived,            \* history: rows that passed the ignore test, all files
    lastOpen             \* history: shape of the file opened last

VARIABLES
    \* ---- cutadapt/cutadapt.py: MultiqcModule ----
    cutadapt_data,            \* ordered dict: sample name -> record (metric -> value)
    cutadapt_length_counts,   \* end -> plot_sname -> length -> count
    cutadapt_length_exp,      \* end -> plot_sname -> length -> expected
    cutadapt_length_obsexp,   \* end -> plot_sname -> length -> observed/expected
    ends,                     \* self.ends
    s_name,                   \* the locals of parse_cutadapt_logs
    end,
    cutadapt_version,
    parsing_version,
    log_section,
    plot_sname,               \* histogram key of the nested loop
    f_s_name,                 \* f["s_name"] of the file being parsed
    c_phase,                  \* "between" files, in the "outer" or the "inner" loop,
                              \* "fatal" (an exception left the parser),
                              \* "nosamples" (ModuleNoSamplesFound), "reported"
    c_nfiles,                 \* files parsed or being parsed
    c_nlines,                 \* lines of the current file the model has drawn
    matched,                  \* history: per sample name, what the scan stored
                              \* since the name's latest "Command line parameters"
    allEarly,                 \* history: every new-log marker read so far is an
                              \* early-generation one
    overwritten,              \* history: the names reported by "Duplicate sample
                              \* name found!" whose replaced record held a metric
    oriented,                 \* history: the file being parsed has had a line
                              \* with a 5'/3' orientation marker
    outputs,                  \* the output steps __init__ has performed, in order
    logs                      \* the files find_log_files yields, each as its
                              \* lines, where the run is over given files
                              \* (empty where the lines are drawn one by one)

picardVars == <<data_by_sample, p_phase, p_row_i, p_cli, p_nfiles,
                general_stats_data, p_return, survived, lastOpen>>

histVars == <<cutadapt_length_counts, cutadapt_length_exp, cutadapt_length_obsexp>>

scanVars == <<s_name, end, cutadapt_version, parsing_version, log_section, plot_sname>>

cutadaptVars == <<cutadapt_data, histVars, ends, scanVars, f_s_name, c_phase,
                  c_nfiles, c_nlines, matched, allEarly, overwritten, oriented,
                  outputs, logs>>

vars == <<picardVars, cutadaptVars>>

-----------------------------------------------------------------------------
(* Bounds of the model *)

MaxFiles == 2
MaxRows == 2
MaxPreamble == 2
MaxLogs == 2
MaxLines == 3

-----------------------------------------------------------------------------
(* Python values and containers *)

None == "None"

\* dict as a function: d[k] = v
FSet(f, k, v) == [x \in (DOMAIN f) \cup {k} |-> IF x = k THEN v ELSE f[x]]

EmptyDict == <<>>

\* ordered dict: a sequence of entries [k, v], keys unique, in insertion order
DictHas(d, k) == \E i \in 1..Len(d) : d[i].k = k

DictGet(d, k) == (CHOOSE e \in {d[i] : i \in 1..Len(d)} : e.k = k).v

DictKeySet(d) == {d[i].k : i \in 1..Len(d)}

\* d[k] = v: an existing key keeps its place, a new key goes last
DictSet(d, k, v) ==
    IF DictHas(d, k)
    THEN [i \in 1..Len(d) |-> IF d[i].k = k THEN [k |-> k, v |-> v] ELSE d[i]]
    ELSE Append(d, [k |-> k, v |-> v])

DictValues(d) == [i \in 1..Len(d) |-> d[i].v]

\* str.startswith, on strings written as sequences of characters
StartsWith(s, prefix) ==
    /\ Len(s) >= Len(prefix)
    /\ SubSeq(s, 1, Len(prefix)) = prefix


\* float as an exact fraction <<numerator, denominator>> in lowest terms
RECURSIVE GCD(_, _)
GCD(a, b) == IF b = 0 THEN a ELSE GCD(b, a % b)

Abs(n) == IF n < 0 THEN -n ELSE n

Rat(n, d) == LET g == GCD(Abs(n), d) IN <<n \div g, d \div g>>

\* A number written with dots ("2.5", "1.6", "1.2.3") is the sequence of its
\* dot-separated digit groups; Empty stands for a group with no digit ("1.6."
\* is <<1, 6, Empty>>). A fraction group is one digit.
Empty == -1

\* float(text) succeeds: at most one dot, and at least one digit
IsFloatText(tok) ==
    /\ Len(tok) \in {1, 2}
    /\ \E i \in 1..Len(tok) : tok[i] # Empty

\* float(text)
FloatOf(tok) ==
    LET ip == IF tok[1] = Empty THEN 0 ELSE tok[1]
        fp == IF Len(tok) = 1 \/ tok[2] = Empty THEN 0 ELSE tok[2]
    IN  Rat(ip * 10 + fp, 10)

-----------------------------------------------------------------------------
(* picard/CrosscheckFingerprints.py: the inputs *)

EXPECTED == <<"E", "X", "P", "E", "C", "T", "E", "D">>

EXPECTED_MATCH == EXPECTED \o <<"_", "M", "A", "T", "C", "H">>

UNEXPECTED_MISMATCH ==
    <<"U", "N">> \o EXPECTED \o <<"_", "M", "I", "S", "M", "A", "T", "C", "H">>

INCONCLUSIVE == <<"I", "N", "C", "O", "N", "C", "L", "U", "S", "I", "V", "E">>

\* Lines of a preamble: a blank line, or a "#" comment that may carry the two
\* settings _parse_cli looks for (None: the pattern does not occur)
PreambleLines ==
    { [t |-> "blank", cta |-> None, lod |-> <<>>],
      [t |-> "comment", cta |-> None, lod |-> <<>>],
      [t |-> "comment", cta |-> "true", lod |-> <<5, 0>>] }

\* The first line that is neither blank nor a comment, split at the tabs
HeaderLines ==
    { [t |-> "text", cols |-> <<"LEFT_SAMPLE", "LEFT_GROUP_VALUE", "RIGHT_SAMPLE",
                                "RIGHT_GROUP_VALUE", "RESULT">>],
      [t |-> "text", cols |-> <<"SAMPLE", "VALUE">>] }

SeqsUpTo(S, n) == UNION {[1..m -> S] : m \in 0..n}

\* What the loop body reads of a file before its rows: the preamble, then the
\* header line unless the file ends first
PicardHeads ==
    {pre \o post : pre \in SeqsUpTo(PreambleLines, MaxPreamble),
                   post \in {<<>>} \cup {<<h>> : h \in HeaderLines}}

\* Rows as DictReader yields them under the full header
RowInputs ==
    { [LEFT_SAMPLE |-> "A.bam", LEFT_GROUP_VALUE |-> "A.bam", RIGHT_SAMPLE |-> "B",
       RIGHT_GROUP_VALUE |-> "B", RESULT |-> EXPECTED_MATCH],
      [LEFT_SAMPLE |-> "A.bam", LEFT_GROUP_VALUE |-> "A.bam", RIGHT_SAMPLE |-> "B",
       RIGHT_GROUP_VALUE |-> "B", RESULT |-> UNEXPECTED_MISMATCH],
      [LEFT_SAMPLE |-> "B", LEFT_GROUP_VALUE |-> "B", RIGHT_SAMPLE |-> "A.bam",
       RIGHT_GROUP_VALUE |-> "A.bam", RESULT |-> EXPECTED_MATCH],
      [LEFT_SAMPLE |-> "B", LEFT_GROUP_VALUE |-> "B", RIGHT_SAMPLE |-> "A.bam",
       RIGHT_GROUP_VALUE |-> "A.bam", RESULT |-> INCONCLUSIVE],
      [LEFT_SAMPLE |-> "ign", LEFT_GROUP_VALUE |-> "ign", RIGHT_SAMPLE |-> "B",
       RIGHT_GROUP_VALUE |-> "B", RESULT |-> UNEXPECTED_MISMATCH],
      [LEFT_SAMPLE |-> "A", LEFT_GROUP_VALUE |-> "A", RIGHT_SAMPLE |-> "ign",
       RIGHT_GROUP_VALUE |-> "ign", RESULT |-> EXPECTED_MATCH] }

\* The external collaborators (base module): the ignore list and the
\* sample-name cleaner, which strips a known file extension
IgnoredSamples == {"ign"}

is_ignore_sample(name) == name \in IgnoredSamples

clean_s_name(name) == IF name = "A.bam" THEN "A" ELSE name

\* multiqc.utils.util_functions.strtobool on the words of the inputs
strtobool(word) == word = "true"

\* Python's order of the sample names that occur (str comparison)
SortedNames == <<"A", "A.bam", "B", "ign">>

StrRank(s) == CHOOSE i \in 1..Len(SortedNames) : SortedNames[i] = s

-----------------------------------------------------------------------------
(* picard/CrosscheckFingerprints.py: the functions *)

\* fn of the _take_till call: line.startswith("#") or line == "\n"
IsPreambleLine(line) == line.t \in {"comment", "blank"}

\* _take_till(iterator, fn): [stop |-> TRUE] is the empty tuple returned on
\* StopIteration; otherwise val is the line that made fn false (the front of
\* the returned iterator) and headers the lines skipped before it
RECURSIVE take_till_from(_, _, _)
take_till_from(lines, i, headers) ==
    IF i > Len(lines)
    THEN [stop |-> TRUE, val |-> None, headers |-> headers]
    ELSE IF IsPreambleLine(lines[i])
         THEN take_till_from(lines, i + 1, Append(headers, lines[i]))
         ELSE [stop |-> FALSE, val |-> lines[i], headers |-> headers]

take_till(lines) == take_till_from(lines, 1, <<>>)

\* Python's True and False where None may stand too, and None where a float
\* may stand
PyBool(b) == IF b THEN "True" ELSE "False"

NoFloat == <<>>

\* (a variant that reads the flag the other way round)
parse_cli_negated(line) ==
    [tumor_awareness |-> IF line.cta # None THEN PyBool(~strtobool(line.cta)) ELSE None,
     lod_threshold |-> IF line.lod # <<>> THEN FloatOf(line.lod) ELSE NoFloat]

\* _parse_cli(line): (tumor_awareness, lod_threshold), None where the
\* pattern does not match
parse_cli(line) ==
    [tumor_awareness |-> IF line.cta # None THEN PyBool(strtobool(line.cta)) ELSE None,
     lod_threshold |-> IF line.lod # <<>> THEN FloatOf(line.lod) ELSE NoFloat]

\* "LEFT_GROUP_VALUE" not in header
HeaderRejected(cols) == ~ \E i \in 1..Len(cols) : cols[i] = "LEFT_GROUP_VALUE"

\* module.is_ignore_sample(row["LEFT_SAMPLE"]) or ...(row["RIGHT_SAMPLE"])
RowIgnored(row) ==
    is_ignore_sample(row.LEFT_SAMPLE) \/ is_ignore_sample(row.RIGHT_SAMPLE)

\* The row as stored: names cleaned, the file's two settings injected
StoredRow(row, cli) ==
    [LEFT_SAMPLE |-> clean_s_name(row.LEFT_SAMPLE),
     LEFT_GROUP_VALUE |-> clean_s_name(row.LEFT_GROUP_VALUE),
     RIGHT_SAMPLE |-> clean_s_name(row.RIGHT_SAMPLE),
     RIGHT_GROUP_VALUE |-> clean_s_name(row.RIGHT_GROUP_VALUE),
     RESULT |-> row.RESULT,
     LOD_THRESHOLD |-> cli.lod_threshold,
     TUMOR_AWARENESS |-> cli.tumor_awareness]

\* The key a stored row gets: i of enumerate(reader), which restarts at 0
\* with every file
RowKey(i, nfiles) == i

\* data_by_sample[i] = row
StoreRow(data, key, row) == DictSet(data, key, row)

\* sorted(flattened, key=lambda r: r["LEFT_SAMPLE"]): stable
RECURSIVE InsertSorted(_, _)
InsertSorted(sorted, r) ==
    IF sorted = <<>>
    THEN <<r>>
    ELSE IF StrRank(sorted[Len(sorted)].LEFT_SAMPLE) <= StrRank(r.LEFT_SAMPLE)
         THEN Append(sorted, r)
         ELSE Append(InsertSorted(SubSeq(sorted, 1, Len(sorted) - 1), r),
                     sorted[Len(sorted)])

RECURSIVE SortedByLeftSample(_)
SortedByLeftSample(rows) ==
    IF rows = <<>>
    THEN <<>>
    ELSE InsertSorted(SortedByLeftSample(SubSeq(rows, 1, Len(rows) - 1)),
                      rows[Len(rows)])

\* itertools.groupby(rows, key=LEFT_SAMPLE): runs of equal consecutive keys
RECURSIVE GroupBy(_)
GroupBy(rows) ==
    IF rows = <<>>
    THEN <<>>
    ELSE LET before == GroupBy(SubSeq(rows, 1, Len(rows) - 1))
             r == rows[Len(rows)]
         IN  IF before # <<>> /\ before[Len(before)].group = r.LEFT_SAMPLE
             THEN [before EXCEPT ![Len(before)].values = Append(@, r)]
             ELSE Append(before, [group |-> r.LEFT_SAMPLE, values |-> <<r>>])

\* (a variant that looks for "EXPECTED" anywhere in the result)
ResultContainsExpected(v) ==
    \E i \in 1..Len(v.RESULT) :
        /\ i + Len(EXPECTED) - 1 <= Len(v.RESULT)
        /\ SubSeq(v.RESULT, i, i + Len(EXPECTED) - 1) = EXPECTED

\* v["RESULT"].startswith("EXPECTED")
ResultExpected(v) == StartsWith(v.RESULT, EXPECTED)

\* "Pass" if all(...) else "Fail"
PassFail(values) ==
    IF \A i \in 1..Len(values) : ResultExpected(values[i]) THEN "Pass" ELSE "Fail"

\* the loop over the groups: out_data[group] = {"Crosschecks All Expected": passfail}
RECURSIVE StatsOfGroups(_, _)
StatsOfGroups(groups, out_data) ==
    IF groups = <<>>
    THEN out_data
    ELSE StatsOfGroups(Tail(groups),
                       FSet(out_data, groups[1].group, PassFail(groups[1].values)))

\* _create_general_stats_data(in_data)
create_general_stats_data(in_data) ==
    StatsOfGroups(GroupBy(SortedByLeftSample(DictValues(in_data))), EmptyDict)

-----------------------------------------------------------------------------
(* picard/CrosscheckFingerprints.py: parse_reports, one action per step of  *)
(* its loops                                                                *)

\* what a line that is not there, or has neither setting, says of the settings
NoLine == [cta |-> None, lod |-> <<>>]

NoCli == [tumor_awareness |-> None, lod_threshold |-> NoFloat]

PicardInit ==
    /\ data_by_sample = <<>>
    /\ p_phase = "idle"
    /\ p_row_i = 0
    /\ p_cli = NoCli
    /\ p_nfiles = 0
    /\ general_stats_data = EmptyDict
    /\ p_return = -1
    /\ survived = 0
    /\ lastOpen = [hasHeader |-> FALSE, hasLGV |-> FALSE, npre |-> 0, second |-> NoLine]

\* (a variant that reads the invocation line before it tests the header)
OpenOutcomeCliFirst(head) ==
    LET r == take_till(head) IN
    IF r.stop
    THEN [phase |-> "raised", cli |-> NoCli]
    ELSE IF Len(r.headers) < 2
         THEN [phase |-> "raised", cli |-> NoCli]
         ELSE IF HeaderRejected(r.val.cols)
              THEN [phase |-> "idle", cli |-> NoCli]
              ELSE [phase |-> "open", cli |-> parse_cli(r.headers[2])]

\* What opening a file does, up to the row loop: "raised" when an exception
\* leaves parse_reports, "idle" when the file is skipped, "open" when its
\* rows are about to be read
OpenOutcome(head) ==
    LET r == take_till(head) IN
    IF r.stop
    THEN [phase |-> "raised", cli |-> NoCli]       \* () does not unpack
    ELSE IF HeaderRejected(r.val.cols)
         THEN [phase |-> "idle", cli |-> NoCli]    \* continue
         ELSE IF Len(r.headers) < 2
              THEN [phase |-> "raised", cli |-> NoCli]   \* comments[1]
              ELSE [phase |-> "open", cli |-> parse_cli(r.headers[2])]

\* The shape of a file: whether it has a header line, whether that line names
\* the column LEFT_GROUP_VALUE, the number of preamble lines before it, and
\* what its second line, when that is a preamble line, says of the settings
ShapeOf(head) ==
    LET n == Len(head)
        hasHeader == n > 0 /\ head[n].t = "text"
    IN  [hasHeader |-> hasHeader,
         hasLGV |-> hasHeader /\ "LEFT_GROUP_VALUE" \in {head[n].cols[i] :
                                                         i \in 1..Len(head[n].cols)},
         npre |-> IF hasHeader THEN n - 1 ELSE n,
         second |-> IF n >= 2 /\ head[2].t # "text"
                    THEN [cta |-> head[2].cta, lod |-> head[2].lod]
                    ELSE NoLine]

\* The head of one loop iteration over the files (lines 43 to 52)
PicardOpenFile(head) ==
    /\ p_phase = "idle"
    /\ p_nfiles < MaxFiles
    /\ LET o == OpenOutcome(head)
       IN  /\ p_phase' = o.phase
           /\ p_cli' = o.cli
           /\ lastOpen' = ShapeOf(head)
    /\ p_row_i' = 0
    /\ p_nfiles' = p_nfiles + 1
    /\ UNCHANGED <<data_by_sample, general_stats_data, p_return, survived>>
    /\ UNCHANGED cutadaptVars

\* One iteration of the row loop (lines 53 to 69)
PicardRow(row) ==
    /\ p_phase = "open"
    /\ p_row_i < MaxRows
    /\ p_row_i' = p_row_i + 1
    /\ IF RowIgnored(row)
       THEN UNCHANGED <<data_by_sample, survived>>
       ELSE /\ data_by_sample' = StoreRow(data_by_sample, RowKey(p_row_i, p_nfiles),
                                          StoredRow(row, p_cli))
            /\ survived' = survived + 1
    /\ UNCHANGED <<p_phase, p_cli, p_nfiles, general_stats_data, p_return, lastOpen>>
    /\ UNCHANGED cutadaptVars

\* The reader is exhausted: on to the next file
PicardEndFile ==
    /\ p_phase = "open"
    /\ p_phase' = "idle"
    /\ UNCHANGED <<data_by_sample, p_row_i, p_cli, p_nfiles, general_stats_data,
                   p_return, survived, lastOpen>>
    /\ UNCHANGED cutadaptVars

\* After the last file (lines 71 to 115)
PicardFinish ==
    /\ p_phase = "idle"
    /\ p_phase' = "done"
    /\ IF Len(data_by_sample) = 0
       THEN /\ p_return' = 0
            /\ UNCHANGED general_stats_data
       ELSE /\ general_stats_data' = create_general_stats_data(data_by_sample)
            /\ p_return' = Len(data_by_sample)
    /\ UNCHANGED <<data_by_sample, p_row_i, p_cli, p_nfiles, survived, lastOpen>>
    /\ UNCHANGED cutadaptVars

-----------------------------------------------------------------------------
(* cutadapt/cutadapt.py: versions and the pattern tables *)

NoVersion == <<>>

\* packaging.version.parse(text) succeeds: every dot-separated group is a number
VersionValid(ver) == Len(ver) > 0 /\ \A i \in 1..Len(ver) : ver[i] # Empty

\* The release segment i of a version, missing segments counting as 0
Segment(ver, i) == IF i <= Len(ver) THEN ver[i] ELSE 0

\* version.parse(a) <= version.parse(b): releases compare segment by segment
RECURSIVE VersionLEFrom(_, _, _)
VersionLEFrom(a, b, i) ==
    IF i > Len(a) /\ i > Len(b)
    THEN TRUE
    ELSE IF Segment(a, i) # Segment(b, i)
         THEN Segment(a, i) < Segment(b, i)
         ELSE VersionLEFrom(a, b, i + 1)

VersionLE(a, b) == VersionLEFrom(a, b, 1)

VersionGT(a, b) == ~VersionLE(a, b)

\* version.parse("1.6")
V16 == <<1, 6>>

\* regexes["1.7"] and regexes["1.6"]: metric key -> the phrase its pattern
\* looks for in front of the number
Regexes17 ==
    [bp_processed |-> "Total basepairs processed",
     bp_written |-> "Total written (filtered)",
     quality_trimmed |-> "Quality-trimmed",
     r_processed |-> "Total reads processed",
     pairs_processed |-> "Total read pairs processed",
     r_with_adapters |-> "Reads with adapters",
     r1_with_adapters |-> "Read 1 with adapter",
     r2_with_adapters |-> "Read 2 with adapter",
     r_too_short |-> "Reads that were too short",
     pairs_too_short |-> "Pairs that were too short",
     r_too_long |-> "Reads that were too long",
     pairs_too_long |-> "Pairs that were too long",
     r_too_many_N |-> "Reads with too many N",
     pairs_too_many_N |-> "Pairs with too many N",
     r_written |-> "Reads written (passing filters)",
     pairs_written |-> "Pairs written (passing filters)"]

Regexes16 ==
    [r_processed |-> "Processed reads",
     bp_processed |-> "Processed bases",
     r_trimmed |-> "Trimmed reads",
     quality_trimmed |-> "Quality-trimmed",
     bp_trimmed |-> "Trimmed bases",
     too_short |-> "Too short reads",
     too_long |-> "Too long reads"]

regexes(bucket) == IF bucket = "1.6" THEN Regexes16 ELSE Regexes17

\* int(match.group(1).replace(",", "")): the number is written as its
\* comma-separated groups, three digits in each group after the first
RECURSIVE IntOfGroups(_, _)
IntOfGroups(tok, acc) ==
    IF tok = <<>> THEN acc ELSE IntOfGroups(Tail(tok), acc * 1000 + Head(tok))

IntOf(tok) == IntOfGroups(tok, 0)

-----------------------------------------------------------------------------
(* cutadapt/cutadapt.py: the lines of a log                                 *)
(*                                                                          *)
(*   k = "new":      a line containing "This is cutadapt" or "cutadapt      *)
(*                   version"; x is "explicit" when it starts with "This is *)
(*                   cutadapt <version>", "legacy" when it starts with      *)
(*                   "cutadapt version <version>", "bare" when neither      *)
(*                   pattern matches at its start; y is the version text    *)
(*   k = "cl":       "Command line parameters: " and the arguments x        *)
(*   k = "metric":   the phrase x, then the number y                        *)
(*   k = "section":  "=== x ==="                                            *)
(*   k = "type":     "...; Type: regular x'; ..."                           *)
(*   k = "overview": "Overview of removed sequences", x the digit of an     *)
(*                   "x' end" that follows on the line, or None             *)
(*   k = "header":   "length count expect ..."                              *)
(*   k = "row":      "length count expect": x = <<length, count>>, y the    *)
(*                   text of expect                                         *)
(*   k = "other":    any other line                                         *)
(****************************************************************************)

Line(k, x, y) == [k |-> k, x |-> x, y |-> y]

\* x.startswith("-")
StartsWithDash(x) == x \in {"-", "-a", "-o", "-p", "--output", "--paired-output"}

\* x.endswith((".fastq", ".fq", ".gz", ".dat"))
EndsWithReadExt(x) == x \in {"A.fastq", "B.fq.gz", "out.fastq"}

\* args[i - 1] in ["-o", "-p", "--output", "--paired-output"]
IsOutputFlag(x) == x \in {"-o", "-p", "--output", "--paired-output"}

\* (a variant that does not look at the argument before)
InputFqsAnyPosition(args) ==
    LET keep(i) == /\ ~StartsWithDash(args[i])
                   /\ EndsWithReadExt(args[i])
        F[i \in 0..Len(args)] ==
            IF i = 0 THEN <<>>
            ELSE IF keep(i) THEN Append(F[i - 1], args[i]) ELSE F[i - 1]
    IN  F[Len(args)]

\* The list input_fqs built by the loop over the arguments
InputFqs(args) ==
    LET keep(i) == /\ ~StartsWithDash(args[i])
                   /\ EndsWithReadExt(args[i])
                   /\ (i = 1 \/ ~IsOutputFlag(args[i - 1]))
        F[i \in 0..Len(args)] ==
            IF i = 0 THEN <<>>
            ELSE IF keep(i) THEN Append(F[i - 1], args[i]) ELSE F[i - 1]
    IN  F[Len(args)]

\* self.clean_s_name(input_fqs, f): the name cleaned from the first file name
CleanFq(name) ==
    CASE name = "A.fastq" -> "A"
      [] name = "B.fq.gz" -> "B"
      [] name = "out.fastq" -> "out"
      [] OTHER -> name

clean_s_name_list(input_fqs) == CleanFq(input_fqs[1])

\* The sample name a "Command line parameters" line gives
SampleNameOf(args, fsn) ==
    IF InputFqs(args) # <<>> THEN clean_s_name_list(InputFqs(args)) ELSE fsn

-----------------------------------------------------------------------------
(* cutadapt/cutadapt.py: parse_cutadapt_logs, the body of the outer loop as *)
(* a function of the parser's state st and the line                         *)

\* (a variant that puts version 1.6 itself in the current generation)
BucketOfExplicitStrict(ver) ==
    IF VersionValid(ver) /\ VersionLE(ver, V16) /\ ~VersionLE(V16, ver)
    THEN "1.6" ELSE "1.7"

\* The bucket an explicit version tag selects: the try/except around the assert
BucketOfExplicit(ver) ==
    IF VersionValid(ver) /\ VersionLE(ver, V16) THEN "1.6" ELSE "1.7"

\* Lines 110 to 127: a new log starts
StepNewLog(st, line) ==
    IF line.k # "new"
    THEN st
    ELSE LET reset == [st EXCEPT !.s_name = None, !.end = "default",
                                 !.cutadapt_version = NoVersion]
         IN  CASE line.x = "explicit" ->
                    [reset EXCEPT !.cutadapt_version = line.y,
                                  !.parsing_version = BucketOfExplicit(line.y)]
               [] line.x = "legacy" ->
                    [reset EXCEPT !.cutadapt_version = line.y,
                                  !.parsing_version = "1.6"]
               [] OTHER -> reset

\* (a variant that keeps the metrics of a record that exists already)
OpenRecordKeep(data, name, ver) ==
    LET old == IF DictHas(data, name) THEN DictGet(data, name) ELSE EmptyDict
    IN  DictSet(data, name,
                IF ver # NoVersion THEN FSet(old, "cutadapt_version", ver) ELSE old)

\* Lines 146 to 150: the record of a sample is opened
OpenRecord(data, name, ver) ==
    DictSet(data, name,
            IF ver # NoVersion THEN FSet(EmptyDict, "cutadapt_version", ver)
            ELSE EmptyDict)

\* Lines 128 to 150: the command line names the sample
\* (a variant that goes back to the current-generation bucket with every
\* "Command line parameters" line)
StepCommandLineResetBucket(st, line, fsn) ==
    IF line.k # "cl"
    THEN st
    ELSE LET name == SampleNameOf(line.x, fsn)
         IN  [st EXCEPT !.s_name = name,
                        !.parsing_version = "1.7",
                        !.data = OpenRecord(st.data, name, st.cutadapt_version)]

StepCommandLine(st, line, fsn) ==
    IF line.k # "cl"
    THEN st
    ELSE LET name == SampleNameOf(line.x, fsn)
         IN  [st EXCEPT !.s_name = name,
                        !.data = OpenRecord(st.data, name, st.cutadapt_version)]

\* The metric keys whose pattern, in the bucket's table, matches the line
MatchedKeys(bucket, line) ==
    IF line.k # "metric" THEN {}
    ELSE {k \in DOMAIN regexes(bucket) : regexes(bucket)[k] = line.x}

\* Lines 159 to 163: self.cutadapt_data[s_name][k] = int(...), every match
StoreMetrics(d, bucket, line) ==
    [k \in (DOMAIN d) \cup MatchedKeys(bucket, line) |->
        IF k \in MatchedKeys(bucket, line) THEN IntOf(line.y) ELSE d[k]]

StepMetrics(st, line) ==
    [st EXCEPT !.data = DictSet(st.data, st.s_name,
                                StoreMetrics(DictGet(st.data, st.s_name),
                                             st.parsing_version, line))]

\* Lines 165 to 167: a section starts
StepSection(st, line) ==
    IF line.k = "section" THEN [st EXCEPT !.log_section = line.x] ELSE st

\* Lines 169 to 172: 3' or 5'
StepType(st, line) ==
    IF line.k = "type" THEN [st EXCEPT !.end = line.x] ELSE st

\* (a variant that makes new dictionaries for the end with every overview)
StepOverviewFresh(st, line) ==
    IF line.k # "overview"
    THEN st
    ELSE LET e == IF line.x # None THEN line.x ELSE st.end
         IN  [st EXCEPT !.end = e,
                        !.counts = FSet(st.counts, e, EmptyDict),
                        !.exp = FSet(st.exp, e, EmptyDict),
                        !.obsexp = FSet(st.obsexp, e, EmptyDict)]

\* Lines 174 to 183: the overview, and the dictionaries of its end
StepOverview(st, line) ==
    IF line.k # "overview"
    THEN st
    ELSE LET e == IF line.x # None THEN line.x ELSE st.end
         IN  IF e \in DOMAIN st.counts
             THEN [st EXCEPT !.end = e]
             ELSE [st EXCEPT !.end = e,
                             !.counts = FSet(st.counts, e, EmptyDict),
                             !.exp = FSet(st.exp, e, EmptyDict),
                             !.obsexp = FSet(st.obsexp, e, EmptyDict)]

\* plot_sname: the sample name, with the section when there is one
PlotName(name, section) == <<name, section>>

\* Lines 185 to 192: the header of a histogram; the nested loop follows.
\* self.cutadapt_length_counts[end] raises KeyError for an end with no
\* dictionary yet
StepHeader(st, line) ==
    IF line.k # "header"
    THEN st
    ELSE LET p == PlotName(st.s_name, st.log_section)
         IN  IF st.end \notin DOMAIN st.counts
             THEN [st EXCEPT !.err = TRUE]
             ELSE [st EXCEPT !.plot = p,
                             !.inner = TRUE,
                             !.counts = FSet(st.counts, st.end,
                                             FSet(st.counts[st.end], p, EmptyDict)),
                             !.exp = FSet(st.exp, st.end,
                                          FSet(st.exp[st.end], p, EmptyDict)),
                             !.obsexp = FSet(st.obsexp, st.end,
                                             FSet(st.obsexp[st.end], p, EmptyDict))]

\* (a variant that takes the section label with no sample active)
StepSampleLabelAlways(st, line) ==
    IF st.s_name = None
    THEN StepSection(st, line)
    ELSE StepHeader(StepOverview(StepType(StepSection(StepMetrics(st, line), line),
                                          line), line), line)

\* Lines 152 to 192: what is done while a sample is active
StepSample(st, line) ==
    IF st.s_name = None
    THEN st
    ELSE StepHeader(StepOverview(StepType(StepSection(StepMetrics(st, line), line),
                                          line), line), line)

\* Lines 110 to 192: one iteration of the outer loop
OuterBody(st, line, fsn) ==
    StepSample(StepCommandLine(StepNewLog(st, line), line, fsn), line)

\* (a variant that divides whatever expected is)
ObsExpAlwaysDivide(count, expected) == Rat(count * expected[2], expected[1])

\* Lines 201 to 207: observed over expected, the raw count when expected is 0
ObsExp(count, expected) ==
    IF expected[1] > 0
    THEN Rat(count * expected[2], expected[1])
    ELSE Rat(count, 1)

\* d[end][plot][a_len] = v
HistSet(d, e, p, a_len, v) == FSet(d, e, FSet(d[e], p, FSet(d[e][p], a_len, v)))

\* (a variant that stores no observed/expected value when expected is 0)
InnerBodySkipZero(st, line2) ==
    IF line2.k # "row"
    THEN [st EXCEPT !.inner = FALSE]
    ELSE LET a_len == line2.x[1]
             count == line2.x[2]
             st1 == [st EXCEPT !.counts = HistSet(st.counts, st.end, st.plot,
                                                  a_len, count)]
         IN  IF ~IsFloatText(line2.y)
             THEN [st1 EXCEPT !.err = TRUE]
             ELSE IF FloatOf(line2.y)[1] > 0
                  THEN [st1 EXCEPT !.exp = HistSet(st.exp, st.end, st.plot, a_len,
                                                   FloatOf(line2.y)),
                                   !.obsexp = HistSet(st.obsexp, st.end, st.plot, a_len,
                                                      ObsExp(count, FloatOf(line2.y)))]
                  ELSE [st1 EXCEPT !.exp = HistSet(st.exp, st.end, st.plot, a_len,
                                                   FloatOf(line2.y))]

\* Lines 195 to 209: one iteration of the nested loop. A line that is no
\* histogram row ends the loop; float() of a text that is no number raises
\* ValueError after the count is stored
InnerBody(st, line2) ==
    IF line2.k # "row"
    THEN [st EXCEPT !.inner = FALSE]
    ELSE LET a_len == line2.x[1]
             count == line2.x[2]
             st1 == [st EXCEPT !.counts = HistSet(st.counts, st.end, st.plot,
                                                  a_len, count)]
         IN  IF ~IsFloatText(line2.y)
             THEN [st1 EXCEPT !.err = TRUE]
             ELSE [st1 EXCEPT !.exp = HistSet(st.exp, st.end, st.plot, a_len,
                                              FloatOf(line2.y)),
                              !.obsexp = HistSet(st.obsexp, st.end, st.plot, a_len,
                                                 ObsExp(count, FloatOf(line2.y)))]

-----------------------------------------------------------------------------
(* cutadapt/cutadapt.py: parse_cutadapt_logs, the pass over the records     *)
(* after the scan (lines 210 to 242)                                        *)

Has(d, k) == k \in DOMAIN d

\* d.get(k, 0)
GetOr0(d, k) == IF Has(d, k) THEN d[k] ELSE 0

\* (a variant that gives the percentage of the basepairs written)
PercentWritten(d) ==
    IF Has(d, "bp_processed") /\ Has(d, "bp_written")
    THEN IF d["bp_processed"] = 0
         THEN [ok |-> FALSE, d |-> d]
         ELSE [ok |-> TRUE,
               d |-> FSet(d, "percent_trimmed",
                          Rat(d["bp_written"] * 100, d["bp_processed"]))]
    ELSE [ok |-> TRUE, d |-> d]

\* Lines 212 to 220. ok is FALSE when the division raises ZeroDivisionError
PercentTrimmed(d) ==
    IF Has(d, "bp_processed") /\ Has(d, "bp_written")
    THEN IF d["bp_processed"] = 0
         THEN [ok |-> FALSE, d |-> d]
         ELSE [ok |-> TRUE,
               d |-> FSet(d, "percent_trimmed",
                          Rat((d["bp_processed"] - d["bp_written"]) * 100,
                              d["bp_processed"]))]
    ELSE IF Has(d, "bp_processed") /\ Has(d, "bp_trimmed")
         THEN IF d["bp_processed"] = 0
              THEN [ok |-> FALSE, d |-> d]
              ELSE [ok |-> TRUE,
                    d |-> FSet(d, "percent_trimmed",
                               Rat((GetOr0(d, "bp_trimmed")
                                    + GetOr0(d, "quality_trimmed")) * 100,
                                   d["bp_processed"]))]
         ELSE [ok |-> TRUE, d |-> d]

\* (a variant that adds the remainder stored before to the processed count)
UnexplainedFromStored(d, prefix) ==
    d[prefix.processed] + GetOr0(d, prefix.unexplained)
        - GetOr0(d, prefix.too_short) - GetOr0(d, prefix.too_long)
        - GetOr0(d, prefix.too_many_N) - GetOr0(d, prefix.written)

\* processed - too_short - too_long - too_many_N - written, absent terms 0
Unexplained(d, prefix) ==
    d[prefix.processed] - GetOr0(d, prefix.too_short) - GetOr0(d, prefix.too_long)
        - GetOr0(d, prefix.too_many_N) - GetOr0(d, prefix.written)

ReadKeys ==
    [processed |-> "r_processed", too_short |-> "r_too_short",
     too_long |-> "r_too_long", too_many_N |-> "r_too_many_N",
     written |-> "r_written", unexplained |-> "r_filtered_unexplained"]

PairKeys ==
    [processed |-> "pairs_processed", too_short |-> "pairs_too_short",
     too_long |-> "pairs_too_long", too_many_N |-> "pairs_too_many_N",
     written |-> "pairs_written", unexplained |-> "pairs_filtered_unexplained"]

\* (a variant that stores a remainder of zero too)
AddUnexplainedNonNegative(d, prefix) ==
    IF Has(d, prefix.processed) /\ Unexplained(d, prefix) >= 0
    THEN FSet(d, prefix.unexplained, Unexplained(d, prefix))
    ELSE d

\* Lines 223 to 232 (reads) and 233 to 242 (pairs)
AddUnexplained(d, prefix) ==
    IF Has(d, prefix.processed) /\ Unexplained(d, prefix) > 0
    THEN FSet(d, prefix.unexplained, Unexplained(d, prefix))
    ELSE d

\* (a variant that skips a record with no version)
FilteringCategoriesSkip(d) ==
    IF ~Has(d, "cutadapt_version") \/ ~VersionValid(d["cutadapt_version"])
    THEN [ok |-> TRUE, d |-> d]
    ELSE IF VersionGT(d["cutadapt_version"], V16)
         THEN [ok |-> TRUE,
               d |-> AddUnexplained(AddUnexplained(d, ReadKeys), PairKeys)]
         ELSE [ok |-> TRUE, d |-> d]

\* Lines 221 to 242. ok is FALSE when d["cutadapt_version"] raises KeyError
\* or version.parse raises InvalidVersion
FilteringCategories(d) ==
    IF ~Has(d, "cutadapt_version")
    THEN [ok |-> FALSE, d |-> d]
    ELSE IF ~VersionValid(d["cutadapt_version"])
         THEN [ok |-> FALSE, d |-> d]
         ELSE IF VersionGT(d["cutadapt_version"], V16)
              THEN [ok |-> TRUE,
                    d |-> AddUnexplained(AddUnexplained(d, ReadKeys), PairKeys)]
              ELSE [ok |-> TRUE, d |-> d]

\* The body of the loop over the records
DerivedOne(d) ==
    LET p == PercentTrimmed(d)
    IN  IF p.ok THEN FilteringCategories(p.d) ELSE p

\* The loop over self.cutadapt_data.items(), which an exception leaves
RECURSIVE DerivePassFrom(_, _)
DerivePassFrom(data, i) ==
    IF i > Len(data)
    THEN [ok |-> TRUE, data |-> data]
    ELSE LET r == DerivedOne(data[i].v)
             data1 == [data EXCEPT ![i].v = r.d]
         IN  IF r.ok THEN DerivePassFrom(data1, i + 1)
             ELSE [ok |-> FALSE, data |-> data1]

DerivePass(data) == DerivePassFrom(data, 1)

-----------------------------------------------------------------------------
(* cutadapt/cutadapt.py: the actions *)

NoPlot == PlotName(None, None)

CutadaptInit ==
    /\ cutadapt_data = <<>>
    /\ cutadapt_length_counts = FSet(EmptyDict, "default", EmptyDict)
    /\ cutadapt_length_exp = FSet(EmptyDict, "default", EmptyDict)
    /\ cutadapt_length_obsexp = FSet(EmptyDict, "default", EmptyDict)
    /\ ends = {"default"}
    /\ s_name = None
    /\ end = "default"
    /\ cutadapt_version = NoVersion
    /\ parsing_version = "1.7"
    /\ log_section = None
    /\ plot_sname = NoPlot
    /\ f_s_name = None
    /\ c_phase = "between"
    /\ c_nfiles = 0
    /\ c_nlines = 0
    /\ matched = EmptyDict
    /\ allEarly = TRUE
    /\ overwritten = {}
    /\ oriented = FALSE
    /\ outputs = <<>>
    /\ logs = <<>>

\* The parser's state as the loop bodies take it
ScanState ==
    [s_name |-> s_name, end |-> end, cutadapt_version |-> cutadapt_version,
     parsing_version |-> parsing_version, log_section |-> log_section,
     data |-> cutadapt_data, counts |-> cutadapt_length_counts,
     exp |-> cutadapt_length_exp, obsexp |-> cutadapt_length_obsexp,
     plot |-> plot_sname, inner |-> c_phase = "inner", err |-> FALSE]

Commit(st) ==
    /\ s_name' = st.s_name
    /\ end' = st.end
    /\ cutadapt_version' = st.cutadapt_version
    /\ parsing_version' = st.parsing_version
    /\ log_section' = st.log_section
    /\ cutadapt_data' = st.data
    /\ cutadapt_length_counts' = st.counts
    /\ cutadapt_length_exp' = st.exp
    /\ cutadapt_length_obsexp' = st.obsexp
    /\ plot_sname' = st.plot
    /\ c_phase' = IF st.err THEN "fatal" ELSE IF st.inner THEN "inner" ELSE "outer"

\* A new-log marker of the early generation: an explicit version tag that is
\* at most 1.6, or the legacy spelling
EarlyMarker(line) ==
    \/ line.x = "legacy"
    \/ line.x = "explicit" /\ VersionValid(line.y) /\ VersionLE(line.y, V16)

AllEarlyAfter(line) == allEarly /\ (line.k = "new" => EarlyMarker(line))

\* What the scan has stored for each sample since its record was opened
MatchedAfter(line) ==
    LET opened == IF line.k = "cl"
                  THEN FSet(matched, s_name',
                            IF cutadapt_version' # NoVersion
                            THEN FSet(EmptyDict, "cutadapt_version", cutadapt_version')
                            ELSE EmptyDict)
                  ELSE matched
        keys == MatchedKeys(parsing_version', line)
    IN  IF s_name' # None /\ keys # {}
        THEN FSet(opened, s_name',
                  [k \in (DOMAIN opened[s_name']) \cup keys |->
                      IF k \in keys THEN IntOf(line.y) ELSE opened[s_name'][k]])
        ELSE opened

\* The names whose record, holding a metric already, a "Command line
\* parameters" line has replaced
OverwrittenAfter(line) ==
    IF /\ line.k = "cl"
       /\ DictHas(cutadapt_data, s_name')
       /\ (DOMAIN DictGet(cutadapt_data, s_name')) \ {"cutadapt_version"} # {}
    THEN overwritten \cup {s_name'}
    ELSE overwritten

\* A line with an orientation marker ("Type: regular N'" or "N' end" on the
\* overview line) has been read from the file
OrientedAfter(line) ==
    oriented \/ line.k = "type" \/ (line.k = "overview" /\ line.x # None)

\* Lines 101 to 108: parse_cutadapt_logs is entered for the next file
StartFile(fsn) ==
    /\ c_phase = "between"
    /\ c_nfiles < MaxLogs
    /\ s_name' = None
    /\ end' = "default"
    /\ cutadapt_version' = NoVersion
    /\ parsing_version' = "1.7"
    /\ log_section' = None
    /\ plot_sname' = NoPlot
    /\ f_s_name' = fsn
    /\ c_phase' = "outer"
    /\ c_nfiles' = c_nfiles + 1
    /\ c_nlines' = 0
    /\ oriented' = FALSE
    /\ UNCHANGED <<cutadapt_data, histVars, ends, matched, allEarly, overwritten, outputs, logs>>
    /\ UNCHANGED picardVars

\* The outer loop takes the next line
OuterLine(line) ==
    /\ c_phase = "outer"
    /\ c_nlines < MaxLines
    /\ Commit(OuterBody(ScanState, line, f_s_name))
    /\ c_nlines' = c_nlines + 1
    /\ matched' = MatchedAfter(line)
    /\ allEarly' = AllEarlyAfter(line)
    /\ overwritten' = OverwrittenAfter(line)
    /\ oriented' = OrientedAfter(line)
    /\ UNCHANGED <<ends, f_s_name, c_nfiles, outputs, logs>>
    /\ UNCHANGED picardVars

\* The nested loop takes the next line
InnerLine(line2) ==
    /\ c_phase = "inner"
    /\ c_nlines < MaxLines
    /\ Commit(InnerBody(ScanState, line2))
    /\ c_nlines' = c_nlines + 1
    /\ allEarly' = AllEarlyAfter(line2)
    /\ oriented' = OrientedAfter(line2)
    /\ UNCHANGED <<ends, f_s_name, c_nfiles, matched, overwritten, outputs, logs>>
    /\ UNCHANGED picardVars

\* The iterator is exhausted, in either loop: the pass over the records, and
\* parse_cutadapt_logs returns (its locals are gone)
EndOfFile ==
    /\ c_phase \in {"outer", "inner"}
    /\ LET r == DerivePass(cutadapt_data)
       IN  /\ cutadapt_data' = r.data
           /\ c_phase' = IF r.ok THEN "between" ELSE "fatal"
    /\ s_name' = None
    /\ end' = "default"
    /\ cutadapt_version' = NoVersion
    /\ parsing_version' = "1.7"
    /\ log_section' = None
    /\ plot_sname' = NoPlot
    /\ f_s_name' = None
    /\ c_nlines' = 0
    /\ oriented' = FALSE
    /\ UNCHANGED <<histVars, ends, c_nfiles, matched, allEarly, overwritten, outputs, logs>>
    /\ UNCHANGED picardVars

\* transform_trimming_length_data_for_plot: ok is FALSE when the key sets
\* differ (ModuleNoSamplesFound)
Without(d, k) == [x \in (DOMAIN d) \ {k} |-> d[x]]

\* (a variant that removes "default" whatever it holds)
TransformAlwaysPop(counts, exp, obsexp) ==
    IF DOMAIN counts # DOMAIN exp \/ DOMAIN exp # DOMAIN obsexp
    THEN [ok |-> FALSE, counts |-> counts, exp |-> exp, obsexp |-> obsexp]
    ELSE [ok |-> TRUE, counts |-> Without(counts, "default"),
          exp |-> Without(exp, "default"), obsexp |-> Without(obsexp, "default")]

TransformLengthData(counts, exp, obsexp) ==
    IF DOMAIN counts # DOMAIN exp \/ DOMAIN exp # DOMAIN obsexp
    THEN [ok |-> FALSE, counts |-> counts, exp |-> exp, obsexp |-> obsexp]
    ELSE IF DOMAIN counts["default"] = {}
         THEN [ok |-> TRUE, counts |-> Without(counts, "default"),
               exp |-> Without(exp, "default"), obsexp |-> Without(obsexp, "default")]
         ELSE [ok |-> TRUE, counts |-> counts, exp |-> exp, obsexp |-> obsexp]

\* self.ignore_samples(data): the records of the names not on the ignore list
RECURSIVE ignore_samples(_)
ignore_samples(data) ==
    IF data = <<>> THEN <<>>
    ELSE IF is_ignore_sample(Head(data).k)
         THEN ignore_samples(Tail(data))
         ELSE <<Head(data)>> \o ignore_samples(Tail(data))

\* Lines 59 to 68: the data file, the general statistics table, the bar plot
\* and the length plots
OutputSteps ==
    <<"write_data_file", "cutadapt_general_stats_table", "cutadapt_filtered_barplot",
      "cutadapt_length_trimmed_plot">>

\* (a variant that goes on to the output steps with no sample)
FinishReportsAlways ==
    /\ c_phase = "between"
    /\ LET t == TransformLengthData(cutadapt_length_counts, cutadapt_length_exp,
                                    cutadapt_length_obsexp)
       IN  /\ cutadapt_length_counts' = t.counts
           /\ cutadapt_length_exp' = t.exp
           /\ cutadapt_length_obsexp' = t.obsexp
           /\ IF ~t.ok
              THEN /\ c_phase' = "nosamples"
                   /\ UNCHANGED <<ends, cutadapt_data, outputs>>
              ELSE /\ ends' = DOMAIN t.counts
                   /\ cutadapt_data' = ignore_samples(cutadapt_data)
                   /\ c_phase' = "reported"
                   /\ outputs' = OutputSteps
    /\ UNCHANGED <<scanVars, f_s_name, c_nfiles, c_nlines, matched, allEarly, overwritten,
                   oriented, logs>>
    /\ UNCHANGED picardVars

\* __init__ after the last file (lines 47 to 68)
Finish ==
    /\ c_phase = "between"
    /\ LET t == TransformLengthData(cutadapt_length_counts, cutadapt_length_exp,
                                    cutadapt_length_obsexp)
       IN  /\ cutadapt_length_counts' = t.counts
           /\ cutadapt_length_exp' = t.exp
           /\ cutadapt_length_obsexp' = t.obsexp
           /\ IF ~t.ok
              THEN /\ c_phase' = "nosamples"
                   /\ UNCHANGED <<ends, cutadapt_data, outputs>>
              ELSE /\ ends' = DOMAIN t.counts
                   /\ cutadapt_data' = ignore_samples(cutadapt_data)
                   /\ IF Len(ignore_samples(cutadapt_data)) = 0
                      THEN /\ c_phase' = "nosamples"
                           /\ UNCHANGED outputs
                      ELSE /\ c_phase' = "reported"
                           /\ outputs' = OutputSteps
    /\ UNCHANGED <<scanVars, f_s_name, c_nfiles, c_nlines, matched, allEarly, overwritten,
                   oriented, logs>>
    /\ UNCHANGED picardVars

-----------------------------------------------------------------------------
(* The logs the model reads *)

FileSNames == {"log"}

MarkerLines ==
    { Line("new", "explicit", <<1, 6>>),
      Line("new", "explicit", <<1, 10>>),
      Line("new", "legacy", <<1, 8>>),
      Line("new", "bare", NoVersion) }

CommandLines ==
    { Line("cl", <<"-o", "out.fastq", "B.fq.gz">>, <<>>),
      Line("cl", <<"-a", "ADAPTER", "-">>, <<>>) }

MetricLines ==
    { Line("metric", "Total reads processed", <<10>>),
      Line("metric", "Reads written (passing filters)", <<4>>),
      Line("metric", "Processed reads", <<10>>) }

HistogramLines ==
    { Line("header", None, <<>>),
      Line("row", <<3, 5>>, <<2, 5>>) }

\* The lines of the logs of Spec: the blocks and their metrics
ScanLines == MarkerLines \cup CommandLines \cup MetricLines \cup HistogramLines

NextOver(lines) ==
    \/ \E fsn \in FileSNames : StartFile(fsn)
    \/ \E line \in lines : OuterLine(line)
    \/ \E line \in lines : InnerLine(line)
    \/ EndOfFile
    \/ Finish

Init == PicardInit /\ CutadaptInit

Next == NextOver(ScanLines)

Spec == Init /\ [][Next]_vars

\* The logs of SpecHist: one sample of a current-generation log is active,
\* and the lines are those of its adapter sections and histograms
HistLines ==
    { Line("new", "explicit", <<1, 10>>),
      Line("cl", <<"-a", "ADAPTER", "A.fastq">>, <<>>),
      Line("metric", "Total reads processed", <<10>>),
      Line("section", "Adapter 1", <<>>),
      Line("type", "3", <<>>),
      Line("overview", None, <<>>),
      Line("overview", "5", <<>>),
      Line("header", None, <<>>),
      Line("row", <<3, 5>>, <<2, 5>>),
      Line("row", <<4, 5>>, <<0, 0>>),
      Line("row", <<4, 7>>, <<1, 2, 3>>),
      Line("other", None, <<>>) }

\* The state after "This is cutadapt 1.10 ..." and "Command line parameters:
\* -a ADAPTER A.fastq" of a first log
HistInit ==
    /\ PicardInit
    /\ cutadapt_data = OpenRecord(<<>>, "A", <<1, 10>>)
    /\ cutadapt_length_counts = FSet(EmptyDict, "default", EmptyDict)
    /\ cutadapt_length_exp = FSet(EmptyDict, "default", EmptyDict)
    /\ cutadapt_length_obsexp = FSet(EmptyDict, "default", EmptyDict)
    /\ ends = {"default"}
    /\ s_name = "A"
    /\ end = "default"
    /\ cutadapt_version = <<1, 10>>
    /\ parsing_version = "1.7"
    /\ log_section = None
    /\ plot_sname = NoPlot
    /\ f_s_name = "log"
    /\ c_phase = "outer"
    /\ c_nfiles = 1
    /\ c_nlines = 0
    /\ matched = FSet(EmptyDict, "A", FSet(EmptyDict, "cutadapt_version", <<1, 10>>))
    /\ allEarly = FALSE
    /\ overwritten = {}
    /\ oriented = FALSE
    /\ outputs = <<>>
    /\ logs = <<>>

SpecHist == HistInit /\ [][NextOver(HistLines)]_vars

\* The records of SpecDerived: the scan of a log has ended with one record,
\* whose read counts (or pair counts) are any numbers up to MaxCount, each
\* present or not
MaxCount == 2

Absent == -1

ReadMetricKeys ==
    {"r_processed", "r_too_short", "r_too_long", "r_too_many_N", "r_written"}

PairMetricKeys ==
    {"pairs_processed", "pairs_too_short", "pairs_too_long", "pairs_too_many_N",
     "pairs_written"}

\* The record with the keys of f that are not Absent, and the version stamp
RecordOf(f, ver) ==
    [k \in {x \in DOMAIN f : f[x] # Absent} \cup {"cutadapt_version"} |->
        IF k = "cutadapt_version" THEN ver ELSE f[k]]

FixedReads ==
    [k \in ReadMetricKeys |->
        IF k = "r_processed" THEN 2 ELSE IF k = "r_written" THEN 1 ELSE Absent]

FixedPairs ==
    [k \in PairMetricKeys |->
        IF k \in {"pairs_processed", "pairs_written"} THEN 1 ELSE Absent]

Both(f, g) == [k \in (DOMAIN f) \cup (DOMAIN g) |-> IF k \in DOMAIN f THEN f[k] ELSE g[k]]

DerivedInputs ==
    {RecordOf(Both(f, FixedPairs), ver) :
        f \in [ReadMetricKeys -> {Absent} \cup (0..MaxCount)],
        ver \in {<<1, 6>>, <<1, 7>>}}
    \cup
    {RecordOf(Both(FixedReads, g), ver) :
        g \in [PairMetricKeys -> {Absent} \cup (0..MaxCount)],
        ver \in {<<1, 6>>, <<1, 7>>}}

DerivedInit ==
    /\ PicardInit
    /\ \E d \in DerivedInputs : cutadapt_data = <<[k |-> "A", v |-> d]>>
    /\ cutadapt_length_counts = FSet(EmptyDict, "default", EmptyDict)
    /\ cutadapt_length_exp = FSet(EmptyDict, "default", EmptyDict)
    /\ cutadapt_length_obsexp = FSet(EmptyDict, "default", EmptyDict)
    /\ ends = {"default"}
    /\ s_name = "A"
    /\ end = "default"
    /\ cutadapt_version = NoVersion
    /\ parsing_version = "1.7"
    /\ log_section = None
    /\ plot_sname = NoPlot
    /\ f_s_name = "log"
    /\ c_phase = "outer"
    /\ c_nfiles = 1
    /\ c_nlines = 0
    /\ matched = EmptyDict
    /\ allEarly = FALSE
    /\ overwritten = {}
    /\ oriented = FALSE
    /\ outputs = <<>>
    /\ logs = <<>>

DerivedNext == EndOfFile \/ Finish

SpecDerived == DerivedInit /\ [][DerivedNext]_vars

\* The logs of SpecBlock: a first block has set a section label and an
\* end-orientation, and further blocks follow in the same file or the next
BlockLines ==
    { Line("new", "explicit", <<1, 10>>),
      Line("cl", <<"-a", "ADAPTER", "A.fastq">>, <<>>),
      Line("section", "Adapter 2", <<>>),
      Line("type", "5", <<>>),
      Line("overview", None, <<>>),
      Line("overview", "5", <<>>),
      Line("header", None, <<>>),
      Line("row", <<3, 5>>, <<2, 5>>) }

\* The state after "This is cutadapt 1.10 ...", "Command line parameters: -a
\* ADAPTER A.fastq", "=== Adapter 1 ===" and "Overview of removed sequences
\* at 3' end" of a first log
BlockInit ==
    /\ PicardInit
    /\ cutadapt_data = OpenRecord(<<>>, "A", <<1, 10>>)
    /\ cutadapt_length_counts = FSet(FSet(EmptyDict, "default", EmptyDict), "3", EmptyDict)
    /\ cutadapt_length_exp = FSet(FSet(EmptyDict, "default", EmptyDict), "3", EmptyDict)
    /\ cutadapt_length_obsexp = FSet(FSet(EmptyDict, "default", EmptyDict), "3", EmptyDict)
    /\ ends = {"default"}
    /\ s_name = "A"
    /\ end = "3"
    /\ cutadapt_version = <<1, 10>>
    /\ parsing_version = "1.7"
    /\ log_section = "Adapter 1"
    /\ plot_sname = NoPlot
    /\ f_s_name = "log"
    /\ c_phase = "outer"
    /\ c_nfiles = 1
    /\ c_nlines = 0
    /\ matched = FSet(EmptyDict, "A", FSet(EmptyDict, "cutadapt_version", <<1, 10>>))
    /\ allEarly = FALSE
    /\ overwritten = {}
    /\ oriented = TRUE
    /\ outputs = <<>>
    /\ logs = <<>>

SpecBlock == BlockInit /\ [][NextOver(BlockLines)]_vars

\* The logs of SpecNames: "Command line parameters" lines with input files,
\* output files after each of the output flags, a bare dash, and a positional
\* argument with no read-file extension
NameLines ==
    { Line("new", "explicit", <<1, 10>>),
      Line("cl", <<"-a", "ADAPTER", "A.fastq">>, <<>>),
      Line("cl", <<"-o", "out.fastq", "B.fq.gz">>, <<>>),
      Line("cl", <<"-a", "ADAPTER", "-">>, <<>>),
      Line("cl", <<"-o", "out.fastq", "-p", "out.fastq", "A.fastq", "B.fq.gz">>, <<>>),
      Line("cl", <<"--output", "out.fastq", "--paired-output", "out.fastq">>, <<>>),
      Line("cl", <<"B.fq.gz", "-o", "out.fastq">>, <<>>),
      Line("cl", <<"-a", "ADAPTER", "reads.txt">>, <<>>),
      Line("metric", "Total reads processed", <<10>>) }

NamesNext ==
    \/ \E fsn \in FileSNames : StartFile(fsn)
    \/ \E line \in NameLines : OuterLine(line)
    \/ EndOfFile
    \/ Finish

SpecNames == Init /\ [][NamesNext]_vars

\* The logs of SpecFinish: files with no sample, files whose only sample is on
\* the ignore list, and files with a sample that is kept
FinishSNames == {"log", "ign"}

FinishLines ==
    { Line("new", "explicit", <<1, 10>>),
      Line("cl", <<"-a", "ADAPTER", "-">>, <<>>),
      Line("cl", <<"-a", "ADAPTER", "A.fastq">>, <<>>),
      Line("metric", "Total reads processed", <<10>>) }

FinishNext ==
    \/ \E fsn \in FinishSNames : StartFile(fsn)
    \/ \E line \in FinishLines : OuterLine(line)
    \/ EndOfFile
    \/ Finish

SpecFinish == Init /\ [][FinishNext]_vars

\* The records of SpecPass: basepair counts up to MaxBp (each key present or
\* not) next to fixed read counts, stamped 1.6 or 1.7; the pass runs at the end
\* of the file that gave the record and again at the end of every later file
MaxBp == 2

BpMetricKeys == {"bp_processed", "bp_written", "bp_trimmed", "quality_trimmed"}

PassInputs ==
    {RecordOf(Both(f, FixedReads), ver) :
        f \in [BpMetricKeys -> {Absent} \cup (0..MaxBp)],
        ver \in {<<1, 6>>, <<1, 7>>}}

PassInit ==
    /\ PicardInit
    /\ \E d \in PassInputs : cutadapt_data = <<[k |-> "A", v |-> d]>>
    /\ cutadapt_length_counts = FSet(EmptyDict, "default", EmptyDict)
    /\ cutadapt_length_exp = FSet(EmptyDict, "default", EmptyDict)
    /\ cutadapt_length_obsexp = FSet(EmptyDict, "default", EmptyDict)
    /\ ends = {"default"}
    /\ s_name = "A"
    /\ end = "default"
    /\ cutadapt_version = NoVersion
    /\ parsing_version = "1.7"
    /\ log_section = None
    /\ plot_sname = NoPlot
    /\ f_s_name = "log"
    /\ c_phase = "outer"
    /\ c_nfiles = 1
    /\ c_nlines = 0
    /\ matched = EmptyDict
    /\ allEarly = FALSE
    /\ overwritten = {}
    /\ oriented = FALSE
    /\ outputs = <<>>
    /\ logs = <<>>

PassNext ==
    \/ \E fsn \in FileSNames : StartFile(fsn)
    \/ EndOfFile
    \/ Finish

SpecPass == PassInit /\ [][PassNext]_vars

\* The logs of SpecOrder: two given files, each one block (new-log marker and
\* "Command line parameters" line) of its own sample followed by up to MaxBody
\* lines; the files are parsed in the order given, line by line
MaxBody == 2

OrderBodyLines ==
    { Line("metric", "Total reads processed", <<10>>),
      Line("type", "3", <<>>),
      Line("overview", "3", <<>>),
      Line("header", None, <<>>),
      Line("row", <<3, 5>>, <<2, 5>>) }

OrderFile(arg, body) ==
    <<Line("new", "explicit", <<1, 10>>),
      Line("cl", <<"-a", "ADAPTER", arg>>, <<>>)>> \o body

OrderLogs ==
    {<<OrderFile("A.fastq", a), OrderFile("B.fq.gz", b)>> :
        a \in SeqsUpTo(OrderBodyLines, MaxBody),
        b \in SeqsUpTo(OrderBodyLines, MaxBody)}

OrderInit ==
    /\ PicardInit
    /\ cutadapt_data = <<>>
    /\ cutadapt_length_counts = FSet(EmptyDict, "default", EmptyDict)
    /\ cutadapt_length_exp = FSet(EmptyDict, "default", EmptyDict)
    /\ cutadapt_length_obsexp = FSet(EmptyDict, "default", EmptyDict)
    /\ ends = {"default"}
    /\ s_name = None
    /\ end = "default"
    /\ cutadapt_version = NoVersion
    /\ parsing_version = "1.7"
    /\ log_section = None
    /\ plot_sname = NoPlot
    /\ f_s_name = None
    /\ c_phase = "between"
    /\ c_nfiles = 0
    /\ c_nlines = 0
    /\ matched = EmptyDict
    /\ allEarly = TRUE
    /\ overwritten = {}
    /\ oriented = FALSE
    /\ outputs = <<>>
    /\ logs \in OrderLogs

\* Line 44: the loop over the files takes the next file
OpenLog ==
    /\ c_nfiles < Len(logs)
    /\ \E fsn \in FileSNames : StartFile(fsn)

\* Lines 109 and 195: the loop the parser is in takes the next line of the file
ReadLine ==
    /\ c_phase \in {"outer", "inner"}
    /\ c_nlines < Len(logs[c_nfiles])
    /\ LET line == logs[c_nfiles][c_nlines + 1]
       IN  /\ Commit(IF c_phase = "inner"
                     THEN InnerBody(ScanState, line)
                     ELSE OuterBody(ScanState, line, f_s_name))
           /\ matched' = IF c_phase = "inner" THEN matched ELSE MatchedAfter(line)
           /\ overwritten' = IF c_phase = "inner" THEN overwritten
                             ELSE OverwrittenAfter(line)
           /\ allEarly' = AllEarlyAfter(line)
           /\ oriented' = OrientedAfter(line)
    /\ c_nlines' = c_nlines + 1
    /\ UNCHANGED <<ends, f_s_name, c_nfiles, outputs, logs>>
    /\ UNCHANGED picardVars

\* The file has no more lines
CloseLog ==
    /\ c_phase \in {"outer", "inner"}
    /\ c_nlines = Len(logs[c_nfiles])
    /\ EndOfFile

\* No more files
FinishLogs ==
    /\ c_nfiles = Len(logs)
    /\ Finish

OrderNext == OpenLog \/ ReadLine \/ CloseLog \/ FinishLogs

SpecOrder == OrderInit /\ [][OrderNext]_vars

\* The same parser as a function: the module's dictionaries after __init__
\* has made them (lines 38 to 41), ...
NewModule ==
    [data |-> <<>>,
     counts |-> FSet(EmptyDict, "default", EmptyDict),
     exp |-> FSet(EmptyDict, "default", EmptyDict),
     obsexp |-> FSet(EmptyDict, "default", EmptyDict),
     ok |-> TRUE]

\* ... the locals at the entry of parse_cutadapt_logs (lines 101 to 105), ...
ScanStart(acc) ==
    [s_name |-> None, end |-> "default", cutadapt_version |-> NoVersion,
     parsing_version |-> "1.7", log_section |-> None,
     data |-> acc.data, counts |-> acc.counts, exp |-> acc.exp,
     obsexp |-> acc.obsexp, plot |-> NoPlot, inner |-> FALSE, err |-> FALSE]

\* ... the two loops over the lines, from line i on, until one raises, ...
RECURSIVE ScanFrom(_, _, _, _)
ScanFrom(st, lines, i, fsn) ==
    IF i > Len(lines) \/ st.err
    THEN st
    ELSE ScanFrom(IF st.inner THEN InnerBody(st, lines[i])
                  ELSE OuterBody(st, lines[i], fsn),
                  lines, i + 1, fsn)

\* ... the whole of parse_cutadapt_logs on one file (ok: nothing was raised), ...
parse_cutadapt_logs(acc, lines, fsn) ==
    LET st == ScanFrom(ScanStart(acc), lines, 1, fsn)
        r == DerivePass(st.data)
    IN  IF st.err
        THEN [data |-> st.data, counts |-> st.counts, exp |-> st.exp,
              obsexp |-> st.obsexp, ok |-> FALSE]
        ELSE [data |-> r.data, counts |-> st.counts, exp |-> st.exp,
              obsexp |-> st.obsexp, ok |-> r.ok]

\* ... and the loop over the files (lines 44 and 45), which an exception leaves
ParseAll(files) ==
    LET F[i \in 0..Len(files)] ==
            IF i = 0 THEN NewModule
            ELSE IF ~F[i - 1].ok THEN F[i - 1]
                 ELSE parse_cutadapt_logs(F[i - 1], files[i], "log")
    IN  F[Len(files)]

PicardNext ==
    \/ \E head \in PicardHeads : PicardOpenFile(head)
    \/ \E row \in RowInputs : PicardRow(row)
    \/ PicardEndFile
    \/ PicardFinish

SpecPicard == Init /\ [][PicardNext]_vars

-----------------------------------------------------------------------------
(* The claims *)

Records == {cutadapt_data[i].v : i \in 1..Len(cutadapt_data)}

\* C1: every surviving row of every pairwise file is stored under a key of
\* its own, so the number of records equals the number of rows that passed the
\* ignore test, over all files: no row of one file overwrites a row of another.
C1_RecordsEqualSurvivingRows == Len(data_by_sample) = survived

\* C2: the line that ends the nested histogram scan is then examined by the
\* outer scan as any other line: after it, the parser is in the state the body
\* of the outer loop gives for that line.
C2_StopLineExaminedByOuterScan ==
    [][\A line \in HistLines :
          (line.k # "row" /\ InnerLine(line)) =>
              LET st == OuterBody([ScanState EXCEPT !.inner = FALSE], line, f_s_name)
              IN  /\ s_name' = st.s_name
                  /\ end' = st.end
                  /\ cutadapt_version' = st.cutadapt_version
                  /\ parsing_version' = st.parsing_version
                  /\ log_section' = st.log_section
                  /\ cutadapt_data' = st.data
                  /\ cutadapt_length_counts' = st.counts
                  /\ cutadapt_length_exp' = st.exp
                  /\ cutadapt_length_obsexp' = st.obsexp]_vars

EarlyGenerationKeys == (DOMAIN Regexes16) \cup {"cutadapt_version", "percent_trimmed"}

\* C3: when every new-log marker of the logs is an early-generation one (an
\* explicit version tag of at most 1.6, or the legacy spelling), every record,
\* after the pass over the records, holds early-generation keys only.
C3_EarlyLogsOnlyEarlyKeys ==
    (c_phase = "between" /\ allEarly) =>
        \A d \in Records : DOMAIN d \subseteq EarlyGenerationKeys

\* C4, as claimed: a new-log marker line alone decides the bucket of the block
\* that follows, early generation for an early marker, current generation
\* otherwise, also when no version number can be extracted from the line.
C4_MarkerAloneDecidesBucket ==
    [][\A line \in MarkerLines :
          OuterLine(line) =>
              parsing_version' = IF EarlyMarker(line) THEN "1.6" ELSE "1.7"]_vars

\* C4, amended: a marker line from which a version number is extracted decides
\* the bucket (early generation for an explicit tag of at most 1.6 or the
\* legacy spelling, current generation otherwise); a marker line with no
\* extractable version leaves the bucket as it was; every file starts in the
\* current generation.
C4_BucketSetWhenVersionRecognized ==
    [][/\ \A line \in MarkerLines :
             OuterLine(line) =>
                 parsing_version' = IF EarlyMarker(line) THEN "1.6"
                                    ELSE IF line.x = "bare" THEN parsing_version
                                    ELSE "1.7"
       /\ \A fsn \in FileSNames : StartFile(fsn) => parsing_version' = "1.7"]_vars

\* A marker with no extractable version has followed an early-generation one:
\* the version string is gone, the bucket is still the early one
C4_Witness ==
    /\ c_phase = "outer"
    /\ parsing_version = "1.6"
    /\ cutadapt_version = NoVersion
    /\ c_nlines >= 2

DerivedKeys == {"percent_trimmed", "r_filtered_unexplained", "pairs_filtered_unexplained"}

ScanPart(d) == [k \in (DOMAIN d) \ DerivedKeys |-> d[k]]

\* C5: a sample identifier has one record, and the record holds what was
\* matched since the latest "Command line parameters" line that gave the
\* identifier (and that block's version stamp): nothing of an earlier block
\* with the same identifier survives; the derived fields are those of the
\* latest block's metrics.
C5_DuplicateSampleKeepsLaterBlock ==
    /\ \A i, j \in 1..Len(cutadapt_data) :
           i # j => cutadapt_data[i].k # cutadapt_data[j].k
    /\ \A i \in 1..Len(cutadapt_data) :
           LET n == cutadapt_data[i].k
               d == cutadapt_data[i].v
           IN  /\ n \in DOMAIN matched
               /\ ScanPart(d) = matched[n]
               /\ c_phase = "between" => d = DerivedOne(matched[n]).d

\* The record of a sample of the second log has replaced one that held a
\* metric, and holds r_written and no r_processed
C5_Witness ==
    /\ c_phase = "between"
    /\ c_nfiles = 2
    /\ \E i \in 1..Len(cutadapt_data) :
           /\ cutadapt_data[i].k \in overwritten
           /\ Has(cutadapt_data[i].v, "r_written")
           /\ ~Has(cutadapt_data[i].v, "r_processed")

\* C6: a record with no version stamp never gets past the pass over the
\* records (the parse ends in the fatal state instead), and never holds a
\* derived current-generation field.
C6_MissingVersionIsFatal ==
    /\ c_phase \in {"between", "nosamples", "reported"} =>
           \A d \in Records : Has(d, "cutadapt_version")
    /\ \A d \in Records :
           ~Has(d, "cutadapt_version") =>
               /\ ~Has(d, "r_filtered_unexplained")
               /\ ~Has(d, "pairs_filtered_unexplained")

\* The parse is fatal with a record that has no version and has r_processed
C6_Witness ==
    /\ c_phase = "fatal"
    /\ \E d \in Records : ~Has(d, "cutadapt_version") /\ Has(d, "r_processed")

\* C7: a file whose header line lacks LEFT_GROUP_VALUE adds no record, raises
\* nothing and leaves the records of the earlier files as they are; the loop
\* over the files goes on.
C7_ForeignHeaderSkipped ==
    [][(p_nfiles' = p_nfiles + 1 /\ lastOpen'.hasHeader /\ ~lastOpen'.hasLGV) =>
          (data_by_sample' = data_by_sample /\ p_phase' = "idle")]_vars

\* A second file, with a foreign header and no preamble, has been skipped
\* while the records of the first are there
C7_Witness ==
    /\ p_phase = "idle"
    /\ p_nfiles = 2
    /\ lastOpen.hasHeader /\ ~lastOpen.hasLGV /\ lastOpen.npre = 0
    /\ Len(data_by_sample) > 0

LeftSamples == {data_by_sample[i].v.LEFT_SAMPLE : i \in 1..Len(data_by_sample)}

RowsOf(left) == {j \in 1..Len(data_by_sample) : data_by_sample[j].v.LEFT_SAMPLE = left}

BeginsWithEXPECTED(result) ==
    /\ Len(result) >= 8
    /\ \A i \in 1..8 : result[i] = EXPECTED[i]

Remainder(d, processed, too_short, too_long, too_many_N, written) ==
    d[processed]
    - (IF too_short \in DOMAIN d THEN d[too_short] ELSE 0)
    - (IF too_long \in DOMAIN d THEN d[too_long] ELSE 0)
    - (IF too_many_N \in DOMAIN d THEN d[too_many_N] ELSE 0)
    - (IF written \in DOMAIN d THEN d[written] ELSE 0)

StoredIffPositive(d, field, remainder) ==
    /\ (field \in DOMAIN d) <=> (remainder > 0)
    /\ (field \in DOMAIN d) => d[field] = remainder

\* C9: after the pass, a record of a version above 1.6 that has r_processed
\* holds r_filtered_unexplained exactly when processed - too_short - too_long
\* - too_many_N - written (absent terms 0) is positive, and then with that
\* value; the same for the pairs_ fields.
C9_UnexplainedStoredIffPositive ==
    c_phase = "between" =>
        \A d \in Records :
            VersionGT(d["cutadapt_version"], V16) =>
                /\ "r_processed" \in DOMAIN d =>
                       StoredIffPositive(d, "r_filtered_unexplained",
                           Remainder(d, "r_processed", "r_too_short", "r_too_long",
                                     "r_too_many_N", "r_written"))
                /\ "pairs_processed" \in DOMAIN d =>
                       StoredIffPositive(d, "pairs_filtered_unexplained",
                           Remainder(d, "pairs_processed", "pairs_too_short",
                                     "pairs_too_long", "pairs_too_many_N",
                                     "pairs_written"))

\* A record with a stored remainder of reads, and pairs with no remainder
C9_Witness ==
    /\ c_phase = "between"
    /\ \E d \in Records :
           /\ Has(d, "r_filtered_unexplained")
           /\ Has(d, "r_too_short")
           /\ Has(d, "pairs_processed")
           /\ ~Has(d, "pairs_filtered_unexplained")

\* expect, in tenths, of a row whose expect is a number
Tenths(tok) == IF Len(tok) = 1 THEN 10 * tok[1] ELSE 10 * tok[1] + tok[2]

\* C10: a histogram row (length, count, expect) taken by the nested scan is
\* stored under the current end and histogram key: count[length] = count,
\* expected[length] = expect, and obsexp[length] = count / expect when
\* expect > 0 and the raw count when expect is 0.
C10_HistogramRowStored ==
    [][\A line \in HistLines :
          (line.k = "row" /\ IsFloatText(line.y) /\ InnerLine(line)) =>
              LET a_len == line.x[1]
                  count == line.x[2]
                  t == Tenths(line.y)
                  e == cutadapt_length_exp'[end][plot_sname][a_len]
                  oe == cutadapt_length_obsexp'[end][plot_sname][a_len]
              IN  /\ cutadapt_length_counts'[end][plot_sname][a_len] = count
                  /\ e[2] > 0 /\ e[1] * 10 = t * e[2]
                  /\ oe[2] > 0
                  /\ t > 0 => oe[1] * t = count * 10 * oe[2]
                  /\ t = 0 => oe[1] = count * oe[2]]_vars

\* A histogram with a row of expect 2.5 and a row of expect 0.0
C10_Witness ==
    \E e \in DOMAIN cutadapt_length_obsexp :
        \E p \in DOMAIN cutadapt_length_obsexp[e] :
            /\ {3, 4} \subseteq DOMAIN cutadapt_length_obsexp[e][p]
            /\ cutadapt_length_exp[e][p][3] = <<5, 2>>
            /\ cutadapt_length_obsexp[e][p][3] = <<2, 1>>
            /\ cutadapt_length_exp[e][p][4] = <<0, 1>>
            /\ cutadapt_length_obsexp[e][p][4] = <<5, 1>>

\* C11: after the pass, a record with bp_processed > bp_written >= 0 holds
\* percent_trimmed = (bp_processed - bp_written) / bp_processed * 100, a value
\* from 0 to 100.
C11_PercentTrimmedInRange ==
    c_phase = "between" =>
        \A d \in Records :
            (/\ Has(d, "bp_processed") /\ Has(d, "bp_written")
             /\ d["bp_processed"] > d["bp_written"] /\ d["bp_written"] >= 0) =>
                /\ Has(d, "percent_trimmed")
                /\ LET pt == d["percent_trimmed"]
                   IN  /\ pt[2] > 0
                       /\ pt[1] * d["bp_processed"]
                              = (d["bp_processed"] - d["bp_written"]) * 100 * pt[2]
                       /\ 0 <= pt[1] /\ pt[1] <= 100 * pt[2]

\* A record with 2 bp processed and 1 written has percent_trimmed 50, and one
\* with 0 written would have 100
C11_Witness ==
    /\ c_phase = "between"
    /\ \E d \in Records :
           /\ Has(d, "bp_processed") /\ Has(d, "bp_written") /\ Has(d, "bp_trimmed")
           /\ d["bp_processed"] = 2 /\ d["bp_written"] = 1
           /\ d["percent_trimmed"] = <<50, 1>>

\* C12: a new-log marker line clears the current sub-section label, so that
\* a histogram header of a later block, met before any section marker of that
\* block, is keyed by the bare sample identifier.
C12_MarkerClearsSectionLabel ==
    [][\A line \in BlockLines :
          (line.k = "new" /\ OuterLine(line)) => log_section' = None]_vars

\* C19: the end-orientation is "default" when a file starts and after every
\* new-log marker line of the file, whichever loop reads the line; an
\* orientation marker line of an active sample sets it; no other line changes
\* it, so an orientation lasts until the next new-log marker and no longer.
C19_EveryMarkerResetsOrientation ==
    [][/\ \A fsn \in FileSNames : StartFile(fsn) => end' = "default"
       /\ \A line \in BlockLines :
             /\ OuterLine(line) =>
                    end' = IF line.k = "new" THEN "default"
                           ELSE IF s_name' # None /\ line.k = "type" THEN line.x
                           ELSE IF s_name' # None /\ line.k = "overview"
                                   /\ line.x # None THEN line.x
                           ELSE end
             /\ InnerLine(line) =>
                    end' = IF line.k = "new" THEN "default" ELSE end]_vars

\* C13: the version bucket changes only on a new-log marker line: every
\* other line, in either loop, leaves it as it is, and a metric line of an
\* active sample stores only keys of the table of that bucket.
C13_BucketStableBetweenMarkers ==
    [][\A line \in ScanLines :
          /\ (OuterLine(line) /\ line.k # "new") => parsing_version' = parsing_version
          /\ InnerLine(line) => parsing_version' = parsing_version
          /\ (OuterLine(line) /\ line.k = "metric" /\ s_name # None) =>
                 LET table == IF parsing_version = "1.6" THEN Regexes16 ELSE Regexes17
                     old == DictGet(cutadapt_data, s_name)
                     new == DictGet(cutadapt_data', s_name)
                 IN  \A k \in DOMAIN new :
                         \/ k \in DOMAIN old /\ new[k] = old[k]
                         \/ k \in DOMAIN table /\ table[k] = line.x]_vars

\* An early-generation block: marker, command line, then a metric stored under
\* the early bucket
C13_Witness ==
    /\ c_phase = "outer"
    /\ c_nlines = 3
    /\ parsing_version = "1.6"
    /\ s_name # None
    /\ Has(DictGet(cutadapt_data, s_name), "r_processed")

\* the mapping m' differs from m under the key "default" only
OnlyDefaultChanges(m, m2) ==
    /\ DOMAIN m2 = DOMAIN m
    /\ \A e \in (DOMAIN m) \ {"default"} : m2[e] = m[e]

\* C14: while a log has had no orientation marker, the end-orientation is
\* "default" and a line changes the three histogram mappings under "default"
\* only; the transform after the scan removes "default" from the three
\* mappings and from the list of ends exactly when it holds no histogram.
C14_DefaultEndElidedIffEmpty ==
    [][/\ \A line \in HistLines :
             ((OuterLine(line) \/ InnerLine(line)) /\ ~oriented') =>
                 /\ end' = "default"
                 /\ OnlyDefaultChanges(cutadapt_length_counts, cutadapt_length_counts')
                 /\ OnlyDefaultChanges(cutadapt_length_exp, cutadapt_length_exp')
                 /\ OnlyDefaultChanges(cutadapt_length_obsexp, cutadapt_length_obsexp')
       /\ Finish =>
             LET holds == DOMAIN cutadapt_length_counts["default"] # {}
             IN  /\ ("default" \in DOMAIN cutadapt_length_counts') <=> holds
                 /\ ("default" \in DOMAIN cutadapt_length_exp') <=> holds
                 /\ ("default" \in DOMAIN cutadapt_length_obsexp') <=> holds
                 /\ ("default" \in ends') <=> holds
                 /\ \A e \in (DOMAIN cutadapt_length_counts) \ {"default"} :
                        e \in ends' /\ e \in DOMAIN cutadapt_length_counts']_vars

\* A run with no orientation marker and one histogram with a row: "default"
\* is the only end, and it is kept
C14_Witness ==
    /\ c_phase = "reported"
    /\ ends = {"default"}
    /\ DOMAIN cutadapt_length_counts = {"default"}
    /\ \E pl \in DOMAIN cutadapt_length_counts["default"] :
           DOMAIN cutadapt_length_counts["default"][pl] # {}

\* The two settings as the second line of the open file gives them
SettingsOfFile ==
    LET inv == lastOpen.second
    IN  [tumor |-> IF inv.cta = None THEN None
                   ELSE IF inv.cta = "true" THEN "True" ELSE "False",
         lod10 |-> IF inv.lod = <<>> THEN -1 ELSE Tenths(inv.lod)]

\* C15: a row that is stored gets the LOD_THRESHOLD and TUMOR_AWARENESS of the
\* invocation line of its own file (None where the line does not have the
\* setting), whatever the row holds and whatever other files gave; the
\* records under the other keys are left as they are.
C15_RowCarriesSettingsOfItsFile ==
    [][\A row \in RowInputs :
          (/\ row.LEFT_SAMPLE \notin IgnoredSamples
           /\ row.RIGHT_SAMPLE \notin IgnoredSamples
           /\ PicardRow(row)) =>
              LET rec == DictGet(data_by_sample', p_row_i)
                  want == SettingsOfFile
              IN  /\ rec.TUMOR_AWARENESS = want.tumor
                  /\ IF want.lod10 = -1
                     THEN rec.LOD_THRESHOLD = <<>>
                     ELSE /\ Len(rec.LOD_THRESHOLD) = 2
                          /\ rec.LOD_THRESHOLD[2] > 0
                          /\ rec.LOD_THRESHOLD[1] * 10 = want.lod10 * rec.LOD_THRESHOLD[2]
                  /\ \A i \in 1..Len(data_by_sample) :
                         data_by_sample[i].k # p_row_i =>
                             /\ DictHas(data_by_sample', data_by_sample[i].k)
                             /\ DictGet(data_by_sample', data_by_sample[i].k)
                                    = data_by_sample[i].v]_vars

\* Two files with different invocation lines: the record left from the first
\* has no settings, the record of the second has both
C15_Witness ==
    /\ p_nfiles = 2
    /\ Len(data_by_sample) = 2
    /\ \E i, j \in 1..2 :
           /\ data_by_sample[i].v.TUMOR_AWARENESS = None
           /\ data_by_sample[i].v.LOD_THRESHOLD = <<>>
           /\ data_by_sample[j].v.TUMOR_AWARENESS = "True"
           /\ data_by_sample[j].v.LOD_THRESHOLD = <<5, 1>>

\* the positions of the arguments that may name the sample
Qualifying(args) ==
    {i \in 1..Len(args) :
        /\ args[i] \notin {"-", "-a", "-o", "-p", "--output", "--paired-output"}
        /\ args[i] \in {"A.fastq", "B.fq.gz", "out.fastq"}
        /\ (i > 1 => args[i - 1] \notin {"-o", "-p", "--output", "--paired-output"})}

\* C16: a "Command line parameters" line names the sample after an argument
\* that does not start with "-", ends in a read-file extension and does not
\* follow an output flag (the first such argument); with no such argument the
\* name is the log file's own sample name; an output path never gives it.
C16_SampleNameFromInputArgument ==
    [][\A line \in NameLines :
          (line.k = "cl" /\ OuterLine(line)) =>
              LET q == Qualifying(line.x)
              IN  /\ q # {} =>
                         s_name' = CleanFq(line.x[CHOOSE i \in q : \A j \in q : i <= j])
                  /\ q = {} => s_name' = f_s_name
                  /\ s_name' # CleanFq("out.fastq")
                  /\ DictHas(cutadapt_data', s_name')]_vars

\* Records named after the input that follows an output path, and after the
\* log file where the line has output paths only
C16_Witness ==
    /\ DictKeySet(cutadapt_data) = {"B", "log"}
    /\ s_name = "log"
    /\ c_nlines = 3

\* C17: the pass at the end of a further file, over records the pass of an
\* earlier file has completed, changes no record and raises nothing.
C17_DerivedPassIdempotent ==
    [][(EndOfFile /\ c_nfiles >= 2) =>
          (cutadapt_data' = cutadapt_data /\ c_phase' = "between")]_vars

\* The pass has run twice over a record that holds both derived fields
C17_Witness ==
    /\ c_phase = "between"
    /\ c_nfiles = 2
    /\ \E d \in Records :
           /\ Has(d, "percent_trimmed")
           /\ Has(d, "r_filtered_unexplained")
           /\ Has(d, "bp_trimmed") /\ ~Has(d, "bp_written")

\* the sample names that are not on the ignore list
KeptNames == DictKeySet(cutadapt_data) \ IgnoredSamples

\* C18: when no sample is left after the files are parsed and the ignored
\* names are filtered out, the module ends with "no samples found" and none of
\* the output steps is performed; with a sample left, all of them are.
C18_NoSamplesNoOutput ==
    /\ [](c_phase # "reported" => outputs = <<>>)
    /\ [][Finish =>
             IF KeptNames = {}
             THEN c_phase' = "nosamples" /\ outputs' = <<>>
             ELSE c_phase' = "reported" /\ outputs' = OutputSteps]_vars

\* A run whose only sample was on the ignore list has ended with "no samples
\* found" and no output
C18_Witness ==
    /\ c_phase = "nosamples"
    /\ outputs = <<>>
    /\ cutadapt_data = <<>>
    /\ "ign" \in DOMAIN matched
    /\ Has(matched["ign"], "r_processed")

\* the mappings a and b have the same keys at the three levels
SameKeys(a, b) ==
    /\ DOMAIN a = DOMAIN b
    /\ \A e \in DOMAIN a :
           /\ DOMAIN a[e] = DOMAIN b[e]
           /\ \A pl \in DOMAIN a[e] : DOMAIN a[e][pl] = DOMAIN b[e][pl]

HistogramKeysAgree ==
    /\ SameKeys(cutadapt_length_counts, cutadapt_length_exp)
    /\ SameKeys(cutadapt_length_exp, cutadapt_length_obsexp)

\* C20: after any lines and files the parser has got through without raising,
\* the three histogram mappings have the same keys at every level
\* (end-orientation, histogram label, trimmed length), and the transform after
\* the scan never ends the run for differing keys (in these logs a sample is
\* always there, so "no samples found" could come from the key check only).
C20_HistogramKeysAgreeUnlessRaised ==
    /\ c_phase # "fatal" => HistogramKeysAgree
    /\ c_phase # "nosamples"

\* A run with histograms under two ends has been reported
C20_Witness ==
    /\ c_phase = "reported"
    /\ "5" \in ends
    /\ \E pl \in DOMAIN cutadapt_length_obsexp["5"] :
           DOMAIN cutadapt_length_obsexp["5"][pl] # {}

\* the current end-orientation has its dictionary in each of the three
\* histogram mappings
StorageForEnd ==
    /\ end \in DOMAIN cutadapt_length_counts
    /\ end \in DOMAIN cutadapt_length_exp
    /\ end \in DOMAIN cutadapt_length_obsexp

\* a step of the outer loop that reads a histogram header for an active
\* sample: the scan goes on in the nested loop, or the header raised
HeaderStep ==
    /\ c_phase = "outer"
    /\ s_name # None
    /\ c_nlines' = c_nlines + 1
    /\ c_phase' \in {"inner", "fatal"}

\* C21: whenever a histogram header is read for an active sample, the current
\* end-orientation has storage in all three mappings and the header raises no
\* missing-key failure, whatever the order of orientation markers, overview
\* lines and headers before it.
C21_HeaderFindsStorageForEnd ==
    [][HeaderStep => (StorageForEnd /\ c_phase' # "fatal")]_vars

\* a step of the outer loop that reads, with no sample active, a line that
\* activates none (any line but "Command line parameters")
InactiveStep ==
    /\ c_phase = "outer"
    /\ s_name = None
    /\ c_nlines' = c_nlines + 1
    /\ s_name' = None

\* C22: while no sample is active (before the first "Command line parameters"
\* line of a file, and between a new-log marker and the next such line), a
\* line changes no sample record, no histogram mapping, not the section label
\* and not the end-orientation, and raises nothing: metric lines, section
\* markers, orientation markers and histogram headers have no effect.
C22_InactiveLinesHaveNoEffect ==
    [][InactiveStep =>
          /\ UNCHANGED <<cutadapt_data, cutadapt_length_counts, cutadapt_length_exp,
                         cutadapt_length_obsexp, log_section, end, plot_sname>>
          /\ c_phase' = "outer"]_vars

\* The second file of a run has given an orientation marker and two more
\* lines with no sample active, after a first file that stored a histogram
C22_Witness ==
    /\ c_phase = "outer"
    /\ c_nfiles = 2
    /\ c_nlines = 3
    /\ s_name = None
    /\ oriented
    /\ end = "default"
    /\ log_section = None
    /\ \E pl \in DOMAIN cutadapt_length_counts["default"] :
           DOMAIN cutadapt_length_counts["default"][pl] # {}

\* the file opened last has no header line at all, or fewer than two preamble
\* lines before its header
HeaderlessOrShortPreamble ==
    /\ p_nfiles > 0
    /\ (~lastOpen.hasHeader \/ lastOpen.npre < 2)

\* C23: a candidate file with no header line (empty, or blank and comment
\* lines only) or with fewer than two preamble lines before its header raises
\* nothing: it is skipped, or its rows are read with both settings absent.
C23_HeaderlessOrShortFileNotFatal ==
    HeaderlessOrShortPreamble =>
        /\ p_phase # "raised"
        /\ (p_phase = "open" => p_cli = NoCli)

\* the file parses without raising when it is the only one
ParsesAlone(file) == ParseAll(<<file>>).ok

\* the sample names and the histogram labels a file gives
SampleNamesOf(file) == DictKeySet(ParseAll(<<file>>).data)

HistogramLabelsOf(file) ==
    LET c == ParseAll(<<file>>).counts
    IN  UNION {DOMAIN c[e] : e \in DOMAIN c}

\* two record sets with the same names and the same record under each name
SameRecords(d1, d2) ==
    /\ DictKeySet(d1) = DictKeySet(d2)
    /\ \A k \in DictKeySet(d1) : DictGet(d1, k) = DictGet(d2, k)

\* both given files have been parsed, in the order given
BothParsed == c_phase = "between" /\ c_nfiles = 2 /\ Len(logs) = 2

\* the two files parse without raising and have no sample name and no
\* histogram label in common
Independent ==
    /\ ParsesAlone(logs[1])
    /\ ParsesAlone(logs[2])
    /\ SampleNamesOf(logs[1]) \cap SampleNamesOf(logs[2]) = {}
    /\ HistogramLabelsOf(logs[1]) \cap HistogramLabelsOf(logs[2]) = {}

\* C24: the locals of the scan (sample name, bucket, version, end-orientation,
\* section label) are at their initial values when a file is entered, whatever
\* the files before held; and for two files that parse without raising and
\* share no sample name and no histogram label, the files parsed in the other
\* order raise nothing and give the same records and the same three histogram
\* mappings.
C24_FilesCommute ==
    /\ [][(c_phase = "between" /\ c_phase' = "outer") =>
             /\ s_name' = None
             /\ parsing_version' = "1.7"
             /\ cutadapt_version' = NoVersion
             /\ end' = "default"
             /\ log_section' = None]_vars
    /\ []((Len(logs) = 2 /\ c_nfiles = 2 /\ Independent) => c_phase # "fatal")
    /\ []((BothParsed /\ Independent) =>
             LET other == ParseAll(<<logs[2], logs[1]>>)
             IN  /\ other.ok
                 /\ SameRecords(other.data, cutadapt_data)
                 /\ other.counts = cutadapt_length_counts
                 /\ other.exp = cutadapt_length_exp
                 /\ other.obsexp = cutadapt_length_obsexp)

\* Two files have been parsed, each with an overview line for the 3' end and a
\* histogram header: both histograms lie under the end-orientation "3", whose
\* storage the file parsed first has made
C24_Witness ==
    /\ BothParsed
    /\ Independent
    /\ "3" \in DOMAIN cutadapt_length_counts
    /\ DOMAIN cutadapt_length_counts["3"] = {PlotName("A", None), PlotName("B", None)}
    /\ DictKeySet(cutadapt_data) = {"A", "B"}

=============================================================================
